---------------------------- MODULE Spec2Model ----------------------------
(***************************************************************************)
(* Model of the ruckig trajectory generator (include/ruckig/ruckig.hpp):   *)
(* Profile::check, Block::is_blocked, Ruckig::synchronize, calculate,      *)
(* validate_input, update and at_time.                                     *)
(*                                                                         *)
(* Numbers.  Time is counted in integer ticks.  So that the closed-form    *)
(* integration of a constant-jerk segment stays exact on integers, a       *)
(* position is stored as 6*p, a velocity as 2*v, and acceleration and jerk *)
(* as they are:                                                            *)
(*     p' = p + v t + a t^2/2 + j t^3/6   <=>  P' = P + 3 V t + 3 a t^2 + j t^3 *)
(*     v' = v + a t + j t^2/2             <=>  V' = V + 2 a t + j t^2      *)
(* Every velocity-valued field (current, target, maximum) is stored as 2*v *)
(* and every position-valued field as 6*p.  On this grid two values that   *)
(* differ do so by far more than the tolerances 1e-8, 1e-9 and 1e-12 of    *)
(* the source, so |x - y| < 1e-8 is x = y and |x| < |m| + 1e-9 is          *)
(* |x| <= |m|.                                                             *)
(***************************************************************************)
EXTENDS Integers, Sequences, FiniteSets, TLC

VARIABLES
    dofs,           \* template parameter DOFs of the instance
    delta_time,     \* Ruckig::delta_time
    current_input,  \* Ruckig::current_input
    t,              \* Ruckig::t
    tf,             \* Ruckig::tf
    profiles,       \* Ruckig::profiles
    input,          \* the InputParameter the caller passed to the last update
    output,         \* the caller's OutputParameter
    result,         \* what the last update did: a Result, or an exception
    ev,             \* record of the last call, for stating the properties
    nplans          \* number of updates that entered calculate

vars == <<dofs, delta_time, current_input, t, tf, profiles, input, output,
          result, ev, nplans>>

-----------------------------------------------------------------------------
(* Bounds of the model *)

\* largest number of axes of an instance
MaxDOFs == 2
\* largest cycle time, in ticks
MaxDelta == 2
\* updates that may enter calculate in one run
MaxPlans == 2
\* the clock value up to which update is called
MaxClock == 6
\* longest jerk phase (segments 0, 2, 4, 6) of a candidate profile
MaxJerkTime == 1
\* longest plateau or cruise (segments 1, 3, 5) of a candidate profile
MaxHoldTime == 1
\* longest brake segment
MaxBrakeTime == 1

\* std::numeric_limits<double>::infinity(): above every finite time
Infinity == 1000000

\* std::optional<T>: the empty set is std::nullopt, {x} holds x
NoValue == {}
Some(x) == {x}
HasValue(o) == o # {}
Value(o) == CHOOSE x \in o : TRUE
ValueOr(o, d) == IF o # {} THEN Value(o) ELSE d

Abs(x) == IF x < 0 THEN -x ELSE x

Axes(n) == 0 .. n - 1

\* the array f with entry k set to x
Put(f, k, x) == [i \in DOMAIN f |-> IF i = k THEN x ELSE f[i]]

-----------------------------------------------------------------------------
(* Profile *)

\* Profile::integrate, on the scaled triple (6p, 2v, a)
Integrate(dt, p0, v0, a0, j) ==
    [p |-> p0 + 3 * v0 * dt + 3 * a0 * dt * dt + j * dt * dt * dt,
     v |-> v0 + 2 * a0 * dt + j * dt * dt,
     a |-> a0 + j * dt]

\* a jerk pattern that ignores the teeth
TeethJerkUDDU(teeth, jf) ==
    [i \in 0 .. 6 |-> <<jf, 0, -jf, 0, -jf, 0, jf>>[i + 1]]

\* the jerk pattern of the teeth
TeethJerk(teeth, jf) ==
    IF teeth = "UDDU"
    THEN [i \in 0 .. 6 |-> <<jf, 0, -jf, 0, -jf, 0, jf>>[i + 1]]
    ELSE [i \in 0 .. 6 |-> <<jf, 0, -jf, 0, jf, 0, -jf>>[i + 1]]

\* the loop of lines 44-50: t_sum[i+1] is written while t[1..i+1] >= 0
RECURSIVE SumLoop(_, _, _)
SumLoop(tt, ts, i) ==
    IF i >= 6 THEN [ok |-> TRUE, t_sum |-> ts]
    ELSE IF tt[i + 1] < 0 THEN [ok |-> FALSE, t_sum |-> ts]
    ELSE SumLoop(tt, [ts EXCEPT ![i + 1] = ts[i] + tt[i + 1]], i + 1)

\* the loop of lines 51-55: forward integration of the seven segments
RECURSIVE ForwardLoop(_, _)
ForwardLoop(pr, i) ==
    IF i >= 7 THEN pr
    ELSE ForwardLoop(
           [pr EXCEPT
              !.a[i + 1] = pr.a[i] + pr.t[i] * pr.j[i],
              !.v[i + 1] = pr.v[i] + pr.t[i] * (2 * pr.a[i] + pr.t[i] * pr.j[i]),
              !.p[i + 1] = pr.p[i] + pr.t[i] * (3 * pr.v[i]
                             + pr.t[i] * (3 * pr.a[i] + pr.t[i] * pr.j[i]))],
           i + 1)

\* Profile::check<teeth>(pf, vf, af, jf, vMax, aMax): the verdict and the
\* profile as the call leaves it
Check(pr, teeth, pf, vf, af, jf, vMax, aMax) ==
    LET Verdict(p3) ==                                       \* lines 59-61
            [ok |-> /\ \A i \in 3 .. 7 : Abs(p3.v[i]) <= Abs(vMax)
                    /\ \A i \in 2 .. 7 : Abs(p3.a[i]) <= Abs(aMax)
                    /\ p3.p[7] = pf
                    /\ p3.v[7] = vf
                    /\ p3.a[7] = af,
             profile |-> p3]
        Summed(p1, s) ==                                     \* lines 44-55
            IF ~s.ok THEN [ok |-> FALSE, profile |-> [p1 EXCEPT !.t_sum = s.t_sum]]
            ELSE Verdict(ForwardLoop([p1 EXCEPT !.t_sum = s.t_sum], 0))
        Filled(p1) ==                                        \* lines 39-43
            IF pr.t[0] < 0 THEN [ok |-> FALSE, profile |-> p1]
            ELSE Summed(p1, SumLoop(p1.t, p1.t_sum, 0))
    IN  Filled([pr EXCEPT !.j = TeethJerk(teeth, jf), !.t_sum[0] = pr.t[0]])

\* Profile::check<teeth>(tf, pf, vf, af, jf, vMax, aMax)
CheckTf(pr, teeth, tfin, pf, vf, af, jf, vMax, aMax) ==
    LET AtTf(c) == [ok |-> c.ok /\ c.profile.t_sum[6] = tfin, profile |-> c.profile]
    IN  AtTf(Check(pr, teeth, pf, vf, af, jf, vMax, aMax))

\* Profile::check<teeth>(tf, pf, vf, af, jf, vMax, aMax, jMax)
CheckTfJerk(pr, teeth, tfin, pf, vf, af, jf, vMax, aMax, jMax) ==
    IF Abs(jf) <= Abs(jMax)
    THEN CheckTf(pr, teeth, tfin, pf, vf, af, jf, vMax, aMax)
    ELSE [ok |-> FALSE, profile |-> pr]

\* a Profile whose arrays hold the indeterminate value g (no initializer in
\* the struct); std::optional t_brake starts empty
UninitProfile(g) ==
    [teeth |-> "UDDU",
     t |-> [i \in 0 .. 6 |-> g], t_sum |-> [i \in 0 .. 6 |-> g],
     j |-> [i \in 0 .. 6 |-> g],
     a |-> [i \in 0 .. 7 |-> g], v |-> [i \in 0 .. 7 |-> g],
     p |-> [i \in 0 .. 7 |-> g],
     t_brake |-> NoValue,
     t_brakes |-> [i \in 0 .. 1 |-> g], j_brakes |-> [i \in 0 .. 1 |-> g],
     a_brakes |-> [i \in 0 .. 1 |-> g], v_brakes |-> [i \in 0 .. 1 |-> g],
     p_brakes |-> [i \in 0 .. 1 |-> g]]

\* the values an uninitialized double is modelled to hold
Garbage == {0, 5}

-----------------------------------------------------------------------------
(* Block *)

\* is_blocked that tests interval a twice and interval b never
is_blocked_a_only(block, x) ==
    \/ x < block.t_min
    \/ (HasValue(block.a) /\ Value(block.a).left < x /\ x < Value(block.a).right)
    \/ (HasValue(block.a) /\ Value(block.a).left < x /\ x < Value(block.a).right)

\* is_blocked with the ends of the intervals counted as inside
is_blocked_closed(block, x) ==
    \/ x < block.t_min
    \/ (HasValue(block.a) /\ Value(block.a).left <= x /\ x <= Value(block.a).right)
    \/ (HasValue(block.b) /\ Value(block.b).left <= x /\ x <= Value(block.b).right)

\* Block::is_blocked
is_blocked(block, x) ==
    \/ x < block.t_min
    \/ (HasValue(block.a) /\ Value(block.a).left < x /\ x < Value(block.a).right)
    \/ (HasValue(block.b) /\ Value(block.b).left < x /\ x < Value(block.b).right)

\* a default-constructed Block: t_min and p_min indeterminate, no intervals
UninitBlock(g) ==
    [t_min |-> g, p_min |-> UninitProfile(g), a |-> NoValue, b |-> NoValue,
     p_a |-> NoValue, p_b |-> NoValue]

-----------------------------------------------------------------------------
(* Brake, Step1, Step2: declared in the header, defined elsewhere.  They   *)
(* are modelled by their contracts: the closed-form algebra is replaced by *)
(* a search over a bounded grid of segment durations, and every candidate  *)
(* is decided by Profile::check.                                           *)

\* is (v, a) inside the envelope the seven-segment solver can absorb: both
\* within their limits, and the velocity still within its limit once the
\* acceleration has been driven to zero with full jerk
InEnvelope(v, a, vMax, aMax, jMax) ==
    /\ Abs(v) <= vMax
    /\ Abs(a) <= aMax
    /\ Abs(v * jMax + a * Abs(a)) <= vMax * jMax

\* the state after brake segments of durations t0, t1 and jerks j0, j1
AfterBrake(t0, t1, j0, j1, p, v, a) ==
    LET s0 == Integrate(t0, p, v, a, j0)
    IN  Integrate(t1, s0.p, s0.v, s0.a, j1)

\* Brake::get_brake_trajectory: no segments inside the envelope; otherwise
\* any two segments of non-negative duration that end inside it
BrakeOutcomes(v0, a0, vMax, aMax, jMax) ==
    IF InEnvelope(v0, a0, vMax, aMax, jMax)
    THEN {[t_brakes |-> [i \in 0 .. 1 |-> 0], j_brakes |-> [i \in 0 .. 1 |-> 0]]}
    ELSE {[t_brakes |-> [i \in 0 .. 1 |-> IF i = 0 THEN c[1] ELSE c[2]],
           j_brakes |-> [i \in 0 .. 1 |-> IF i = 0 THEN c[3] ELSE c[4]]] :
            c \in {c \in (0 .. MaxBrakeTime) \X (0 .. MaxBrakeTime)
                          \X {-jMax, 0, jMax} \X {-jMax, 0, jMax} :
                     /\ c[1] + c[2] > 0
                     /\ (c[1] = 0 => c[3] = 0)
                     /\ (c[2] = 0 => c[4] = 0)
                     /\ LET s == AfterBrake(c[1], c[2], c[3], c[4], 0, v0, a0)
                        IN  InEnvelope(s.v, s.a, vMax, aMax, jMax)}}

\* the grid of segment durations the solvers search
CandTimes ==
    {tt \in [0 .. 6 -> 0 .. (MaxJerkTime + MaxHoldTime)] :
        \A i \in 0 .. 6 :
            tt[i] <= (IF i \in {1, 3, 5} THEN MaxHoldTime ELSE MaxJerkTime)}

Teeths == {"UDDU", "UDUD"}

\* total duration of a candidate
Dur(c) == c.t[0] + c.t[1] + c.t[2] + c.t[3] + c.t[4] + c.t[5] + c.t[6]

\* the acceleration a candidate ends with: the boundary condition the
\* closed forms solve first
FinalAcc(c, a0) ==
    LET jj == TeethJerk(c.teeth, c.jf)
    IN  a0 + c.t[0] * jj[0] + c.t[2] * jj[2] + c.t[4] * jj[4] + c.t[6] * jj[6]

\* the profile a solver hands to Profile::check: the input profile (with its
\* brake prefix) started at (p0, v0, a0) with the candidate's durations
Candidate(pr, q, c) ==
    [pr EXCEPT !.a[0] = q.a0, !.v[0] = q.v0, !.p[0] = q.p0,
               !.t = c.t, !.teeth = c.teeth]

\* Step1: the candidates of full jerk that Profile::check accepts
Step1Valid(q) ==
    {c \in [t : CandTimes, jf : {q.jMax, -q.jMax}, teeth : Teeths] :
        /\ FinalAcc(c, q.a0) = q.af
        /\ Check(Candidate(UninitProfile(0), q, c), c.teeth,
                 q.pf, q.vf, q.af, c.jf, q.vMax, q.aMax).ok}

\* Step2: the candidates of duration tfin and jerk within jMax that
\* Profile::check accepts
Step2Valid(tfin, q) ==
    {c \in [t : {tt \in CandTimes : Dur([t |-> tt]) = tfin},
            jf : (-q.jMax) .. q.jMax, teeth : Teeths] :
        /\ FinalAcc(c, q.a0) = q.af
        /\ CheckTfJerk(Candidate(UninitProfile(0), q, c), c.teeth, tfin,
                       q.pf, q.vf, q.af, c.jf, q.vMax, q.aMax, q.jMax).ok}

-----------------------------------------------------------------------------
(* The inputs the caller is modelled to pass (InputParameter) *)

\* one axis of an input: current and target state, limits, enabled
Axis(cp, cv, ca, tp, tv, ta, vm, am, jm, en) ==
    [cp |-> cp, cv |-> cv, ca |-> ca, tp |-> tp, tv |-> tv, ta |-> ta,
     vm |-> vm, am |-> am, jm |-> jm, en |-> en]

\* rest to rest over p = 2 with vMax = aMax = jMax = 1
AxisRest == Axis(0, 0, 0, 12, 0, 0, 2, 1, 1, TRUE)
\* rest to rest over p = 3: needs a cruise
AxisFar == Axis(0, 0, 0, 18, 0, 0, 2, 1, 1, TRUE)
\* already at its target
AxisHold == Axis(0, 0, 0, 0, 0, 0, 2, 1, 1, TRUE)
\* arriving at full speed
AxisMoving == Axis(18, 2, 0, 30, 0, 0, 2, 1, 1, TRUE)
\* current velocity above the limit: needs the brake prefix
AxisFast == Axis(0, 4, 0, 30, 0, 0, 2, 1, 1, TRUE)
\* a velocity limit that is not positive
AxisBad == Axis(0, 0, 0, 12, 0, 0, 0, 1, 1, TRUE)
\* a disabled axis, moving with constant acceleration
AxisOff == Axis(6, 2, 1, 12, 0, 0, 2, 1, 1, FALSE)
\* current velocity above the limit while already decelerating at -aMax:
\* the brake needs no jerk segment, only the deceleration held
AxisBraking == Axis(0, 4, -1, 13, 1, 0, 2, 1, 1, TRUE)

AxisScenarios ==
    {AxisRest, AxisFar, AxisHold, AxisMoving, AxisFast, AxisBad, AxisOff,
     AxisBraking}

\* the minimum_duration values
Floors == {NoValue, Some(4)}

MakeInput(n, ax, floor) ==
    [current_position |-> [d \in Axes(n) |-> ax[d].cp],
     current_velocity |-> [d \in Axes(n) |-> ax[d].cv],
     current_acceleration |-> [d \in Axes(n) |-> ax[d].ca],
     target_position |-> [d \in Axes(n) |-> ax[d].tp],
     target_velocity |-> [d \in Axes(n) |-> ax[d].tv],
     target_acceleration |-> [d \in Axes(n) |-> ax[d].ta],
     max_velocity |-> [d \in Axes(n) |-> ax[d].vm],
     max_acceleration |-> [d \in Axes(n) |-> ax[d].am],
     max_jerk |-> [d \in Axes(n) |-> ax[d].jm],
     enabled |-> [d \in Axes(n) |-> ax[d].en],
     minimum_duration |-> floor]

\* the axes of the modelled inputs: every scenario alone, and pairs of them
AxisChoices(n) ==
    IF n = 1 THEN {<<x>> : x \in AxisScenarios}
    ELSE {<<AxisRest, AxisFar>>, <<AxisHold, AxisMoving>>, <<AxisFast, AxisFar>>,
          <<AxisRest, AxisOff>>, <<AxisOff, AxisHold>>, <<AxisRest, AxisBad>>}
         \cup {[d \in 1 .. n |-> AxisRest]}

Inputs(n) ==
    {MakeInput(n, [d \in Axes(n) |-> ax[d + 1]], f) :
        ax \in AxisChoices(n), f \in Floors}

\* a default-constructed InputParameter: arrays indeterminate (g), every
\* axis enabled, no minimum duration
UninitInput(n, g) ==
    MakeInput(n, [d \in Axes(n) |-> Axis(g, g, g, g, g, g, g, g, g, TRUE)], NoValue)

\* a default-constructed OutputParameter
UninitOutput(n, g) ==
    [new_position |-> [d \in Axes(n) |-> g],
     new_velocity |-> [d \in Axes(n) |-> g],
     new_acceleration |-> [d \in Axes(n) |-> g],
     duration |-> g,
     new_calculation |-> FALSE,
     independent_min_durations |-> [d \in Axes(n) |-> g]]

-----------------------------------------------------------------------------
(* Step1 and Step2 results.  The boundary-value problems the modelled      *)
(* inputs lead to are solved once and tabulated; any other problem is      *)
(* solved when it arises.                                                  *)

Query(p0, v0, a0, pf, vf, af, vMax, aMax, jMax) ==
    [p0 |-> p0, v0 |-> v0, a0 |-> a0, pf |-> pf, vf |-> vf, af |-> af,
     vMax |-> vMax, aMax |-> aMax, jMax |-> jMax]

\* the smallest duration of a set of candidates that is above d
NextDur(cands, d) ==
    LET Least(ds) == IF ds = {} THEN NoValue
                     ELSE Some(CHOOSE e \in ds : \A f \in ds : e <= f)
    IN  Least({e \in {Dur(c) : c \in cands} : e > d})

\* the forbidden intervals between the three smallest accepted durations
Gaps(valid) ==
    LET Third(d1, d2) ==
            LET Both(d3) ==
                    <<IF HasValue(d2) THEN {[left |-> Value(d1), right |-> Value(d2)]} ELSE {},
                      IF HasValue(d3) THEN {[left |-> Value(d2), right |-> Value(d3)]} ELSE {}>>
            IN  Both(IF HasValue(d2) THEN NextDur(valid, Value(d2)) ELSE NoValue)
        Second(d1) == Third(d1, IF HasValue(d1) THEN NextDur(valid, Value(d1)) ELSE NoValue)
    IN  Second(NextDur(valid, -1))

\* the profile Profile::check leaves for the accepted candidate of duration d
ProfAt(valid, q, d) ==
    LET Checked(c) == Check(Candidate(UninitProfile(0), q, c), c.teeth, q.pf,
                            q.vf, q.af, c.jf, q.vMax, q.aMax).profile
    IN  Checked(CHOOSE c \in valid : Dur(c) = d)

\* Step1::get_profile: the Blocks it may leave in step1.block; none when no
\* candidate is accepted (it returns false).  t_min is the smallest
\* t_sum[6]; each of the two lowest gaps between accepted durations may be
\* reported as a forbidden interval, with the profile at its right end.
Step1Solve(q) ==
    LET Blocks(valid, g) ==
            IF valid = {} THEN {}
            ELSE {[t_min |-> Value(NextDur(valid, -1)),
                   p_min |-> ProfAt(valid, q, Value(NextDur(valid, -1))),
                   a |-> ab[1],
                   b |-> ab[2],
                   p_a |-> {ProfAt(valid, q, x.right) : x \in ab[1]},
                   p_b |-> {ProfAt(valid, q, x.right) : x \in ab[2]}] :
                  ab \in {<<NoValue, NoValue>>}
                           \cup {<<Some(x), NoValue>> : x \in g[1] \cup g[2]}
                           \cup {<<Some(x), Some(y)>> : <<x, y>> \in g[1] \X g[2]}}
        Accepted(valid) == Blocks(valid, Gaps(valid))
    IN  Accepted(Step1Valid(q))

\* Step2::get_profile: the profile it may leave when it returns true; none
\* when no candidate is accepted.  It returns on the first feasible match
\* of its enumeration.
Step2Solve(tfin, q) ==
    LET First(valid) ==
            IF valid = {} THEN {}
            ELSE {CheckTfJerk(Candidate(UninitProfile(0), q, c), c.teeth, tfin,
                              q.pf, q.vf, q.af, c.jf, q.vMax, q.aMax,
                              q.jMax).profile :
                  c \in {CHOOSE c \in valid : TRUE}}
    IN  First(Step2Valid(tfin, q))

Step1Domain ==
    UNION {
      {Query(x.cp, x.cv, x.ca, x.tp, x.tv, x.ta, x.vm, x.am, x.jm),
       Query(x.tp, x.tv, x.ta, x.tp, x.tv, x.ta, x.vm, x.am, x.jm)}
      \cup
      {LET s == AfterBrake(b.t_brakes[0], b.t_brakes[1], b.j_brakes[0],
                           b.j_brakes[1], x.cp, x.cv, x.ca)
       IN  Query(s.p, s.v, s.a, x.tp, x.tv, x.ta, x.vm, x.am, x.jm) :
         b \in BrakeOutcomes(x.cv, x.ca, x.vm, x.am, x.jm)} :
      x \in {y \in AxisScenarios : y.vm > 0 /\ y.am > 0 /\ y.jm > 0}}

Step1Table == {<<q, Step1Solve(q)>> : q \in Step1Domain}

Step2Domain == (0 .. (4 * MaxJerkTime + 3 * MaxHoldTime)) \X Step1Domain

Step2Table == {<<x, Step2Solve(x[1], x[2])>> : x \in Step2Domain}

\* the entry of a table under the key k
Lookup(table, k) == (CHOOSE e \in table : e[1] = k)[2]

\* the members a solver writes into the caller's profile: all but the brake
\* prefix
Solved(pr, s) ==
    [pr EXCEPT !.teeth = s.teeth, !.t = s.t, !.t_sum = s.t_sum, !.j = s.j,
               !.a = s.a, !.v = s.v, !.p = s.p]

\* step1.get_profile(profiles[dof], ...) on the profile pr
Step1Blocks(pr, q) ==
    {[blk EXCEPT !.p_min = Solved(pr, blk.p_min),
                 !.p_a = {Solved(pr, s) : s \in blk.p_a},
                 !.p_b = {Solved(pr, s) : s \in blk.p_b}] :
     blk \in IF q \in Step1Domain THEN Lookup(Step1Table, q) ELSE Step1Solve(q)}

\* step2.get_profile(profiles[dof], ...) on the profile pr
Step2Profiles(pr, tfin, q) ==
    {Solved(pr, s) :
     s \in IF <<tfin, q>> \in Step2Domain THEN Lookup(Step2Table, <<tfin, q>>)
           ELSE Step2Solve(tfin, q)}

-----------------------------------------------------------------------------
(* Ruckig::synchronize *)

\* lines 204-210: the candidate times, three per axis
PossibleTSyncs(n, blocks) ==
    [i \in 0 .. 3 * n - 1 |->
        CASE i % 3 = 0 -> blocks[i \div 3].t_min
          [] i % 3 = 1 -> IF HasValue(blocks[i \div 3].a)
                          THEN Value(blocks[i \div 3].a).right ELSE Infinity
          [] OTHER     -> IF HasValue(blocks[i \div 3].b)
                          THEN Value(blocks[i \div 3].b).right ELSE Infinity]

\* lines 213-215: the indices, stably sorted by their candidate time
RECURSIVE SortFrom(_, _)
SortFrom(vals, rest) ==
    IF rest = {} THEN <<>>
    ELSE LET Then(i) == <<i>> \o SortFrom(vals, rest \ {i})
         IN  Then(CHOOSE i \in rest :
                    \A k \in rest : vals[i] < vals[k] \/ (vals[i] = vals[k] /\ i <= k))

StableSortIdx(vals) == SortFrom(vals, DOMAIN vals)

\* line 219: is this candidate passed over
Rejected(n, blocks, floor, x) ==
    \/ \E d \in Axes(n) : is_blocked(blocks[d], x)
    \/ x < ValueOr(floor, 0)

\* lines 217-221: position in the sorted order of the first candidate that
\* is not passed over, 0 when there is none
RECURSIVE FirstAccepted(_, _, _, _, _, _)
FirstAccepted(n, blocks, floor, vals, order, k) ==
    IF k > Len(order) THEN 0
    ELSE IF Rejected(n, blocks, floor, vals[order[k]]) THEN
              FirstAccepted(n, blocks, floor, vals, order, k + 1)
    ELSE k

\* line 224: std::ceil((i + 1.0) / 3) - 1
LimitingDof(i) == ((i + 1) + 2) \div 3 - 1

\* the selection with the cases 1 and 2 exchanged
SelectedProfileSwapped(block, i) ==
    CASE i % 3 = 0 -> Some(block.p_min)
      [] i % 3 = 1 -> block.p_b
      [] OTHER     -> block.p_a

\* lines 226-236: the profile of the accepted candidate; empty when
\* std::optional::value() throws
SelectedProfile(block, i) ==
    CASE i % 3 = 0 -> Some(block.p_min)
      [] i % 3 = 1 -> block.p_a
      [] OTHER     -> block.p_b

\* synchronize(blocks, t_min, t_sync, limiting_dof, profiles): what it
\* returns ("true", "false", or "bad_optional_access" when value() throws),
\* and t_sync, limiting_dof and profiles as it leaves them.  t_sync0 and
\* limiting0 are what the caller's variables held before.
synchronize(n, blocks, floor, t_sync0, limiting0, profs) ==
    LET Take(t_sync, i, ld, sel) ==                          \* lines 223-237
            IF HasValue(sel)
            THEN [ret |-> "true", t_sync |-> t_sync, limiting_dof |-> ld,
                  idx |-> i, profiles |-> Put(profs, ld, Value(sel))]
            ELSE [ret |-> "bad_optional_access", t_sync |-> t_sync,
                  limiting_dof |-> ld, idx |-> i, profiles |-> profs]
        Walk(vals, order, k) ==                              \* lines 217-240
            IF k = 0
            THEN [ret |-> "false", t_sync |-> t_sync0, limiting_dof |-> limiting0,
                  idx |-> -1, profiles |-> profs]
            ELSE Take(vals[order[k]], order[k], LimitingDof(order[k]),
                      SelectedProfile(blocks[LimitingDof(order[k])], order[k]))
        Sorted(vals, order) ==
            Walk(vals, order, FirstAccepted(n, blocks, floor, vals, order, 1))
        Listed(vals) == Sorted(vals, StableSortIdx(vals))   \* lines 204-215
    IN  IF n = 1 /\ ~HasValue(floor)                         \* lines 196-201
        THEN [ret |-> "true", t_sync |-> blocks[0].t_min, limiting_dof |-> 0,
              idx |-> 0, profiles |-> Put(profs, 0, blocks[0].p_min)]
        ELSE Listed(PossibleTSyncs(n, blocks))

-----------------------------------------------------------------------------
(* Ruckig::validate_input *)

\* x > std::sqrt(r) for x >= 0: std::sqrt of a negative number is NaN, and
\* every comparison with NaN is false
GreaterThanSqrt(x, r) == r >= 0 /\ x * x > r

\* the radicand 2 * max_jerk * (max_velocity - |target_velocity|) of line
\* 366; velocities are stored doubled, which takes up the factor 2
Radicand(inp, d) ==
    inp.max_jerk[d] * (inp.max_velocity[d] - Abs(inp.target_velocity[d]))

\* lines 341-370: is axis d rejected
AxisRejected(inp, d) ==
    \/ inp.max_velocity[d] <= 0
    \/ inp.max_acceleration[d] <= 0
    \/ inp.max_jerk[d] <= 0
    \/ inp.target_velocity[d] > inp.max_velocity[d]
    \/ inp.target_acceleration[d] > inp.max_acceleration[d]
    \/ GreaterThanSqrt(Abs(inp.target_acceleration[d]), Radicand(inp, d))

validate_input(n, inp) == \A d \in Axes(n) : ~AxisRejected(inp, d)

-----------------------------------------------------------------------------
(* Ruckig::calculate *)

\* lines 263-282: the brake prefix written into the axis' profile, and the
\* state the profile proper starts from
WithBrake(pr, b, p, v, a) ==
    LET Second(pr2, s0) ==                                   \* lines 276-281
            IF b.t_brakes[1] > 0
            THEN [profile |-> [pr2 EXCEPT !.p_brakes[1] = s0.p,
                                          !.v_brakes[1] = s0.v,
                                          !.a_brakes[1] = s0.a],
                  start |-> Integrate(b.t_brakes[1], s0.p, s0.v, s0.a,
                                      b.j_brakes[1])]
            ELSE [profile |-> pr2, start |-> s0]
        First(pr1) ==                                        \* lines 270-282
            IF b.t_brakes[0] > 0
            THEN Second([pr1 EXCEPT !.p_brakes[0] = p, !.v_brakes[0] = v,
                                    !.a_brakes[0] = a],
                        Integrate(b.t_brakes[0], p, v, a, b.j_brakes[0]))
            ELSE [profile |-> pr1, start |-> [p |-> p, v |-> v, a |-> a]]
    IN  First([pr EXCEPT !.t_brakes = b.t_brakes, !.j_brakes = b.j_brakes,
                         !.t_brake = Some(b.t_brakes[0] + b.t_brakes[1])])

\* the boundary-value problem of axis d from the start state s
AxisQuery(inp, d, s) ==
    Query(s.p, s.v, s.a, inp.target_position[d], inp.target_velocity[d],
          inp.target_acceleration[d], inp.max_velocity[d],
          inp.max_acceleration[d], inp.max_jerk[d])

\* lines 257-293: the loop over the axes, from axis d on.  acc holds the
\* profiles, the start states (p0s, v0s, a0s), the blocks and
\* output.independent_min_durations (imd) as written so far; threw is set
\* when Step1 found no profile
RECURSIVE Step1Loop(_, _, _, _)
Step1Loop(n, inp, d, acc) ==
    IF d >= n THEN {acc}
    ELSE IF ~inp.enabled[d] THEN Step1Loop(n, inp, d + 1, acc)
    ELSE UNION {
           IF blks = {}
           THEN {[acc EXCEPT !.profiles = Put(acc.profiles, d, wb.profile),
                             !.starts = Put(acc.starts, d, wb.start),
                             !.threw = TRUE]}
           ELSE UNION {Step1Loop(n, inp, d + 1,
                          [acc EXCEPT !.profiles = Put(acc.profiles, d, wb.profile),
                                      !.starts = Put(acc.starts, d, wb.start),
                                      !.blocks = Put(acc.blocks, d, blk),
                                      !.imd = Put(acc.imd, d, blk.t_min)]) :
                       blk \in blks} :
           <<wb, blks>> \in
              {<<w, Step1Blocks(w.profile, AxisQuery(inp, d, w.start))>> :
               w \in {WithBrake(acc.profiles[d], b, inp.current_position[d],
                                inp.current_velocity[d],
                                inp.current_acceleration[d]) :
                      b \in BrakeOutcomes(inp.current_velocity[d],
                                          inp.current_acceleration[d],
                                          inp.max_velocity[d],
                                          inp.max_acceleration[d],
                                          inp.max_jerk[d])}}}

\* lines 305-318: the loop over the axes that need Step2, from axis d on
RECURSIVE Step2Loop(_, _, _, _, _, _, _)
Step2Loop(n, inp, tsync, limiting, starts, d, acc) ==
    IF d >= n THEN {acc}
    ELSE IF ~inp.enabled[d] \/ d = limiting
         THEN Step2Loop(n, inp, tsync, limiting, starts, d + 1, acc)
    ELSE UNION {
           IF outs = {} THEN {[acc EXCEPT !.threw = TRUE]}
           ELSE UNION {Step2Loop(n, inp, tsync, limiting, starts, d + 1,
                                 [acc EXCEPT !.profiles = Put(acc.profiles, d, pr)]) :
                       pr \in outs} :
           outs \in {Step2Profiles(acc.profiles[d],
                                   tsync - ValueOr(acc.profiles[d].t_brake, 0),
                                   AxisQuery(inp, d, starts[d]))}}

\* what the last planning event did, kept for stating the properties
NoSync == [idx |-> -1, limiting_dof |-> -1, ret |-> "none"]

\* calculate(input, output): every way the call can end.  res is the Result
\* returned, or the exception thrown; the other fields are the members and
\* the output as the call leaves them.
calculate(n, inp, t0, tf0, profs, out) ==
    LET End(res, tf1, profs1, out1, sync1) ==
            [res |-> res, current_input |-> inp, t |-> t0, tf |-> tf1,
             profiles |-> profs1, output |-> out1, sync |-> sync1]
        Finish(sy, o1, sr, c) ==                             \* lines 310-326
            IF c.threw
            THEN End("throw:step2", sy.t_sync, c.profiles, o1, sr)
            ELSE [End("Working", sy.t_sync, c.profiles,
                      [o1 EXCEPT !.duration = sy.t_sync, !.new_calculation = TRUE],
                      sr) EXCEPT !.t = 0]
        Synced(a, sy, o1, sr) ==                             \* lines 297-319
            IF sy.ret = "bad_optional_access"
            THEN {End("throw:bad_optional_access", sy.t_sync, sy.profiles, o1, sr)}
            ELSE IF sy.ret = "false"
            THEN {End("throw:synchronization", sy.t_sync, sy.profiles, o1, sr)}
            ELSE {Finish(sy, o1, sr, c) :
                  c \in IF sy.t_sync > 0
                        THEN Step2Loop(n, inp, sy.t_sync, sy.limiting_dof,
                                       a.starts, 0,
                                       [profiles |-> sy.profiles, threw |-> FALSE])
                        ELSE {[profiles |-> sy.profiles, threw |-> FALSE]}}
        Stepped(a, sy) ==                                    \* lines 288-302
            IF a.threw
            THEN {End("throw:step1", tf0, a.profiles,
                      [out EXCEPT !.independent_min_durations = a.imd], NoSync)}
            ELSE Synced(a, sy, [out EXCEPT !.independent_min_durations = a.imd],
                        [idx |-> sy.idx, limiting_dof |-> sy.limiting_dof,
                         ret |-> sy.ret])
    IN  IF ~validate_input(n, inp)                           \* lines 245-251
        THEN {End("ErrorInvalidInput", tf0, profs, out, NoSync)}
        ELSE UNION {
               UNION {Stepped(a, synchronize(n, a.blocks, inp.minimum_duration,
                                             tf0, g, a.profiles)) :
                      a \in Step1Loop(n, inp, 0,
                              [profiles |-> profs,
                               starts |-> [d \in Axes(n) |-> [p |-> g, v |-> g, a |-> g]],
                               blocks |-> [d \in Axes(n) |-> UninitBlock(g)],
                               imd |-> out.independent_min_durations,
                               threw |-> FALSE])} :
               g \in Garbage}

-----------------------------------------------------------------------------
(* Ruckig::at_time *)

\* std::lower_bound in its place: the first index whose entry is at or
\* above x
LowerBound(t_sum, x) ==
    IF \E i \in 0 .. 6 : t_sum[i] >= x
    THEN CHOOSE i \in 0 .. 6 : t_sum[i] >= x /\ \A k \in 0 .. i - 1 : ~(t_sum[k] >= x)
    ELSE 7

\* std::upper_bound over t_sum: the first index whose entry is above x, 7
\* when there is none
UpperBound(t_sum, x) ==
    IF \E i \in 0 .. 6 : t_sum[i] > x
    THEN CHOOSE i \in 0 .. 6 : t_sum[i] > x /\ \A k \in 0 .. i - 1 : ~(t_sum[k] > x)
    ELSE 7

\* lines 415-447: the sample of the stored profile p at `time`
ProfileSample(p, time) ==
    LET InBrake(index) ==                                    \* lines 419-429
            Integrate(IF index > 0 THEN time - p.t_brakes[index - 1] ELSE time,
                      p.p_brakes[index], p.v_brakes[index], p.a_brakes[index],
                      p.j_brakes[index])
        InSegment(t_diff, index) ==                          \* lines 440-447
            Integrate(IF index > 0 THEN t_diff - p.t_sum[index - 1] ELSE t_diff,
                      p.p[index], p.v[index], p.a[index], p.j[index])
        InProfile(t_diff) ==                                 \* lines 433-447
            IF t_diff >= p.t_sum[6]
            THEN [p |-> p.p[7], v |-> p.v[7], a |-> p.a[7]]
            ELSE InSegment(t_diff, UpperBound(p.t_sum, t_diff))
    IN  IF HasValue(p.t_brake) /\ time < Value(p.t_brake)
        THEN InBrake(IF time < p.t_brakes[0] THEN 0 ELSE 1)
        ELSE InProfile(IF HasValue(p.t_brake) THEN time - Value(p.t_brake) ELSE time)

\* lines 410-448, one axis: a disabled axis is integrated from the cached
\* current state (line 412), and with no `continue` after it the sample of
\* the axis' stored profile is then written over all three outputs
AxisSample(cur, profs, d, time) ==
    LET Written(held, smp) == IF ~cur.enabled[d]
                              THEN [held EXCEPT !.p = smp.p, !.v = smp.v, !.a = smp.a]
                              ELSE smp
    IN  Written(Integrate(time, cur.current_position[d], cur.current_velocity[d],
                          cur.current_acceleration[d], 0),
                ProfileSample(profs[d], time))

\* at_time(time, output): the three output arrays
at_time(n, dt, cur, profs, tfin, time, out) ==
    LET Store(smp) ==
            [out EXCEPT !.new_position = [d \in Axes(n) |-> smp[d].p],
                        !.new_velocity = [d \in Axes(n) |-> smp[d].v],
                        !.new_acceleration = [d \in Axes(n) |-> smp[d].a]]
    IN  Store([d \in Axes(n) |->
                 IF time + dt > tfin                         \* lines 402-408
                 THEN Integrate(time - tfin, cur.target_position[d],
                                cur.target_velocity[d],
                                cur.target_acceleration[d], 0)
                 ELSE AxisSample(cur, profs, d, time)])

-----------------------------------------------------------------------------
(* Ruckig::update *)

\* a comparison that finds every input new
NeedsPlanAlways(inp, cur) == TRUE

\* line 382: does the input differ from the cached one
NeedsPlan(inp, cur) == inp # cur

\* the end test with >= for >
PastEndInclusive(dt, time, tfin) == time + dt >= tfin

\* line 391: is the plan consumed at the clock value `time`
PastEnd(dt, time, tfin) == time + dt > tfin

\* update(input, output): every way the call can end.  planned tells
\* whether calculate was run, calc what it returned or threw.
update(n, dt, cur, t0, tf0, profs, inp, out) ==
    LET Sampled(c, o2, planned) ==                           \* lines 386-398
            [result |-> IF PastEnd(dt, c.t, c.tf) THEN "Finished" ELSE "Working",
             current_input |->
                 IF PastEnd(dt, c.t, c.tf) THEN c.current_input
                 ELSE [c.current_input EXCEPT
                          !.current_position = o2.new_position,
                          !.current_velocity = o2.new_velocity,
                          !.current_acceleration = o2.new_acceleration],
             t |-> c.t, tf |-> c.tf, profiles |-> c.profiles, output |-> o2,
             planned |-> planned, calc |-> c.res, sync |-> c.sync]
        Planned(c) ==                                        \* lines 382-386
            IF c.res \in {"Working", "none"}
            THEN Sampled(c, at_time(n, dt, c.current_input, c.profiles, c.tf,
                                    c.t, c.output), c.res # "none")
            ELSE [result |-> IF c.res = "ErrorInvalidInput" THEN "Error" ELSE c.res,
                  current_input |-> c.current_input, t |-> c.t, tf |-> c.tf,
                  profiles |-> c.profiles, output |-> c.output,
                  planned |-> TRUE, calc |-> c.res, sync |-> c.sync]
    IN  {Planned(c) :
         c \in IF NeedsPlan(inp, cur)                        \* lines 379-384
               THEN calculate(n, inp, t0 + dt, tf0, profs,
                              [out EXCEPT !.new_calculation = FALSE])
               ELSE {[res |-> "none", current_input |-> cur, t |-> t0 + dt,
                      tf |-> tf0, profiles |-> profs,
                      output |-> [out EXCEPT !.new_calculation = FALSE],
                      sync |-> NoSync]}}

-----------------------------------------------------------------------------
(* The instance and its caller *)

\* the state after construction: Ruckig(delta_time) initializes delta_time
\* only; t, tf, the profiles and the arrays of current_input are
\* indeterminate
Init ==
    /\ dofs \in 1 .. MaxDOFs
    /\ delta_time \in 1 .. MaxDelta
    /\ \E g \in Garbage :
          /\ t = g
          /\ tf = g
          /\ current_input = UninitInput(dofs, g)
          /\ profiles = [d \in Axes(dofs) |-> UninitProfile(g)]
          /\ input = UninitInput(dofs, g)
          /\ output = UninitOutput(dofs, g)
    /\ result = "none"
    /\ ev = [call |-> "none", planned |-> FALSE, calc |-> "none",
             sync |-> NoSync, chain |-> FALSE, works |-> 0,
             pending |-> FALSE, good |-> FALSE, since |-> -1,
             start |-> <<>>]
    /\ nplans = 0

\* the input that feeds the last output back as the current state
Feedback(inp, out) ==
    [inp EXCEPT !.current_position = out.new_position,
                !.current_velocity = out.new_velocity,
                !.current_acceleration = out.new_acceleration]

\* did the call o compute a plan
Started(o) == o.planned /\ o.calc = "Working"

\* does a call of this kind go on with the run of fed-back calls that a
\* successful planning event started
Continues(kind) == ev.chain /\ kind = "feedback" /\ result = "Working"

\* one call update(inp, output).  ev records what the call did: chain
\* holds from a successful planning event on while every call feeds the
\* output back and none before has returned Finished, works counts the
\* Working results of that run; pending holds from an error on until a
\* planning event succeeds; good once a planning event has succeeded; since
\* counts the calls since the last successful planning event while none
\* of them entered calculate (-1 otherwise); start is the current state
\* of the input of the last successful planning event.
Call(inp, kind) ==
    /\ t + delta_time <= MaxClock
    /\ NeedsPlan(inp, current_input) => nplans < MaxPlans
    /\ \E o \in update(dofs, delta_time, current_input, t, tf, profiles, inp, output) :
          /\ current_input' = o.current_input
          /\ t' = o.t
          /\ tf' = o.tf
          /\ profiles' = o.profiles
          /\ output' = o.output
          /\ result' = o.result
          /\ input' = inp
          /\ nplans' = IF o.planned THEN nplans + 1 ELSE nplans
          /\ ev' = [call |-> kind, planned |-> o.planned, calc |-> o.calc,
                    sync |-> o.sync,
                    chain |-> Continues(kind) \/ Started(o),
                    works |-> (IF Continues(kind) THEN ev.works ELSE 0)
                              + (IF (Continues(kind) \/ Started(o))
                                     /\ o.result = "Working" THEN 1 ELSE 0),
                    pending |-> ~Started(o)
                                /\ (ev.pending \/ o.result \notin {"Working", "Finished"}),
                    good |-> ev.good \/ Started(o),
                    since |-> IF Started(o) THEN 0
                              ELSE IF ~o.planned /\ ev.since >= 0
                              THEN ev.since + 1 ELSE -1,
                    start |-> IF Started(o)
                              THEN [d \in Axes(dofs) |->
                                      [p |-> inp.current_position[d],
                                       v |-> inp.current_velocity[d],
                                       a |-> inp.current_acceleration[d]]]
                              ELSE ev.start]
    /\ UNCHANGED <<dofs, delta_time>>

\* the caller passes a new input
UpdateNew == \E inp \in Inputs(dofs) : Call(inp, "new")

\* the caller passes the input of the last call again
UpdateSame == result # "none" /\ Call(input, "same")

\* the caller passes the last input with the last output as current state
UpdateFeedback ==
    /\ result \in {"Working", "Finished"}
    /\ Call(Feedback(input, output), "feedback")

Next == UpdateNew \/ UpdateSame \/ UpdateFeedback

Spec == Init /\ [][Next]_vars

-----------------------------------------------------------------------------
(* synchronize as a function of the Blocks and the floor *)

\* the largest interval end of the Blocks synchronize is applied to
MaxSyncTime == 3

\* a profile told apart by its duration only
ProfileOfDuration(d) == [UninitProfile(0) EXCEPT !.t_sum[6] = d]

\* the intervals above a minimum duration
IntervalsFrom(lo) ==
    {[left |-> l, right |-> r] : <<l, r>> \in
        {x \in (lo .. MaxSyncTime) \X (lo .. MaxSyncTime) : x[1] < x[2]}}

\* the Blocks Step1 can leave: t_min with its profile, and each interval
\* with the profile at its right end
SyncBlocks ==
    {[t_min |-> m, p_min |-> ProfileOfDuration(m),
      a |-> ia, b |-> ib,
      p_a |-> {ProfileOfDuration(x.right) : x \in ia},
      p_b |-> {ProfileOfDuration(x.right) : x \in ib}] :
     <<m, ia, ib>> \in
        UNION {{m} \X ({NoValue} \cup {Some(x) : x \in IntervalsFrom(m)})
                  \X ({NoValue} \cup {Some(x) : x \in IntervalsFrom(m)}) :
               m \in 0 .. (MaxSyncTime - 2)}}

SyncFloors == {NoValue, Some(1), Some(MaxSyncTime)}

InitSync ==
    /\ dofs \in 1 .. MaxDOFs
    /\ delta_time = 1
    /\ t = 0
    /\ tf \in Garbage
    /\ current_input = UninitInput(dofs, 0)
    /\ profiles = [d \in Axes(dofs) |-> UninitProfile(0)]
    /\ input \in [blocks : [Axes(dofs) -> SyncBlocks], floor : SyncFloors]
    /\ output = UninitOutput(dofs, 0)
    /\ result = "none"
    /\ ev = NoSync
    /\ nplans = 0

\* synchronize(blocks, floor, tf, limiting_dof, profiles) is called once
Synchronize ==
    /\ result = "none"
    /\ \E g \in Garbage :
         \E sy \in {synchronize(dofs, input.blocks, input.floor, tf, g, profiles)} :
            /\ result' = sy.ret
            /\ tf' = sy.t_sync
            /\ profiles' = sy.profiles
            /\ ev' = [idx |-> sy.idx, limiting_dof |-> sy.limiting_dof, ret |-> sy.ret]
    /\ UNCHANGED <<dofs, delta_time, current_input, t, input, output, nplans>>

NextSync == Synchronize

SpecSync == InitSync /\ [][NextSync]_vars

\* the candidate set of the claim: t_min and the right ends of the
\* intervals present, of every axis
CandidateSet ==
    UNION {{input.blocks[d].t_min}
             \cup {x.right : x \in input.blocks[d].a}
             \cup {x.right : x \in input.blocks[d].b} : d \in Axes(dofs)}

\* a duration an axis forbids: below its t_min, or strictly inside one of
\* its intervals
Forbidden(block, x) ==
    \/ x < block.t_min
    \/ \E i \in block.a \cup block.b : i.left < x /\ x < i.right

\* a candidate the claim allows: at or above the floor, forbidden by no axis
Allowed(x) ==
    /\ x >= ValueOr(input.floor, 0)
    /\ \A d \in Axes(dofs) : ~Forbidden(input.blocks[d], x)

\* C1: when synchronize succeeds, the returned T_sync is the smallest value
\* of the candidate set that is at or above the floor and is blocked by no
\* axis; the single-DOF fast path included.
C1_SmallestAllowedCandidate ==
    result = "true" =>
        /\ tf \in CandidateSet
        /\ Allowed(tf)
        /\ \A x \in CandidateSet : Allowed(x) => tf <= x

\* C1 witness: success on the candidate walk, at the right end of an
\* interval of the second axis, with smaller candidates passed over
C1_Witness ==
    /\ result = "true"
    /\ dofs = 2
    /\ HasValue(input.floor)
    /\ ev.idx = 4
    /\ \E x \in CandidateSet : x < tf

\* C14: is_blocked(x) holds iff x < t_min, or a exists and a.left < x <
\* a.right, or b exists and b.left < x < b.right; so a candidate that is
\* a t_min or an end of an interval, meets the floor and is blocked by no
\* axis is accepted: synchronize succeeds, with no later candidate.
C14_StrictMembership ==
    result # "none" =>
        /\ \A d \in Axes(dofs) : \A x \in 0 .. (MaxSyncTime + 1) :
              is_blocked(input.blocks[d], x) <=>
                 \/ x < input.blocks[d].t_min
                 \/ \E i \in input.blocks[d].a : i.left < x /\ x < i.right
                 \/ \E i \in input.blocks[d].b : i.left < x /\ x < i.right
        /\ \A x \in CandidateSet :
              Allowed(x) => (result = "true" /\ tf <= x)

\* C14 witness: the accepted time is the right end of an interval of one
\* axis and the left end of an interval of the other
C14_Witness ==
    /\ result = "true"
    /\ \E d1, d2 \in Axes(dofs) :
          /\ d1 # d2
          /\ \E i \in input.blocks[d1].a \cup input.blocks[d1].b : i.right = tf
          /\ \E i \in input.blocks[d2].a \cup input.blocks[d2].b : i.left = tf

\* the candidate time with index i, as the claims read it: t_min, the
\* right end of a, the right end of b of axis i div 3
CandidateAt(i) ==
    CASE i % 3 = 0 -> {input.blocks[i \div 3].t_min}
      [] i % 3 = 1 -> {x.right : x \in input.blocks[i \div 3].a}
      [] OTHER     -> {x.right : x \in input.blocks[i \div 3].b}

\* C15: when synchronize accepts the candidate with index idx, 0 <= idx <
\* 3 * DOFs, limiting_dof is idx div 3, a valid axis, and the profile stored
\* for that axis is its p_min, p_a or p_b for idx mod 3 = 0, 1, 2; no
\* candidate of the same value has a lower index; the profile of no other
\* axis is written.
C15_IndexSelectsProfile ==
    result = "true" =>
        /\ ev.idx \in 0 .. (3 * dofs - 1)
        /\ ev.limiting_dof = ev.idx \div 3
        /\ ev.limiting_dof \in Axes(dofs)
        /\ CandidateAt(ev.idx) = {tf}
        /\ {profiles[ev.limiting_dof]} =
              (CASE ev.idx % 3 = 0 -> {input.blocks[ev.limiting_dof].p_min}
                 [] ev.idx % 3 = 1 -> input.blocks[ev.limiting_dof].p_a
                 [] OTHER          -> input.blocks[ev.limiting_dof].p_b)
        /\ \A k \in 0 .. (ev.idx - 1) : tf \notin CandidateAt(k)
        /\ \A d \in Axes(dofs) \ {ev.limiting_dof} :
              profiles[d] = UninitProfile(0)

\* C15 witness: the right end of an interval is accepted, and a candidate
\* with a higher index has the same value
C15_Witness ==
    /\ result = "true"
    /\ dofs = 2
    /\ ev.idx % 3 # 0
    /\ \E k \in (ev.idx + 1) .. (3 * dofs - 1) : tf \in CandidateAt(k)

\* C18: when synchronize reports success, T_sync is finite and the
\* selected profile exists (sub-index 1 or 2 only with the interval and
\* its profile present); the infinite placeholder of a missing interval is
\* never accepted, and when no finite candidate is acceptable synchronize
\* reports failure.
C18_SuccessIsFinite ==
    result # "none" =>
        /\ result = "true" =>
              /\ tf < Infinity
              /\ ev.idx % 3 = 1 =>
                    (HasValue(input.blocks[ev.idx \div 3].a)
                       /\ HasValue(input.blocks[ev.idx \div 3].p_a))
              /\ ev.idx % 3 = 2 =>
                    (HasValue(input.blocks[ev.idx \div 3].b)
                       /\ HasValue(input.blocks[ev.idx \div 3].p_b))
        /\ (\A x \in CandidateSet : ~Allowed(x)) => result = "false"

-----------------------------------------------------------------------------
(* validate_input as a function of the input *)

\* the largest limit (velocity doubled) of the inputs validate_input is
\* applied to
MaxLimit == 2

\* the largest target magnitude (velocity doubled) of those inputs
MaxTarget == 3

\* the axes whose limits and targets range over the grid
ProbeAxes ==
    {Axis(0, 0, 0, 0, tv, ta, vm, am, jm, TRUE) :
        <<tv, ta, vm, am, jm>> \in
            ((-MaxTarget) .. MaxTarget) \X ((1 - MaxTarget) .. (MaxTarget - 1))
            \X (0 .. MaxLimit) \X (0 .. (MaxLimit - 1)) \X (0 .. (MaxLimit - 1))}

\* the inputs: one axis from the grid, the others rest to rest
ValidateInputs(n) ==
    {MakeInput(n, [d \in Axes(n) |-> IF d = k THEN x ELSE AxisRest], NoValue) :
        <<k, x>> \in Axes(n) \X ProbeAxes}

InitValidate ==
    /\ dofs \in 1 .. MaxDOFs
    /\ delta_time = 1
    /\ t = 0
    /\ tf = 0
    /\ current_input = UninitInput(dofs, 0)
    /\ profiles = [d \in Axes(dofs) |-> UninitProfile(0)]
    /\ input \in ValidateInputs(dofs)
    /\ output = UninitOutput(dofs, 0)
    /\ result = "none"
    /\ ev = NoSync
    /\ nplans = 0

\* validate_input(input) is called once
Validate ==
    /\ result = "none"
    /\ result' = IF validate_input(dofs, input) THEN "accepted" ELSE "rejected"
    /\ UNCHANGED <<dofs, delta_time, current_input, t, tf, profiles, input,
                   output, ev, nplans>>

NextValidate == Validate

SpecValidate == InitValidate /\ [][NextValidate]_vars

\* the ceiling of the claim, squared: target_acceleration^2 <=
\* 2 * max_jerk * (max_velocity - |target_velocity|), velocities doubled
UnderCeiling(d) ==
    input.target_acceleration[d] * input.target_acceleration[d]
        <= input.max_jerk[d] * (input.max_velocity[d] - Abs(input.target_velocity[d]))

\* the conditions the claim lists for one axis
AxisConditions(d) ==
    /\ input.max_velocity[d] > 0
    /\ input.max_acceleration[d] > 0
    /\ input.max_jerk[d] > 0
    /\ input.target_velocity[d] <= input.max_velocity[d]
    /\ input.target_acceleration[d] <= input.max_acceleration[d]
    /\ UnderCeiling(d)

\* C10: validate_input accepts an input if and only if every axis meets
\* the listed conditions; in particular every accepted input has
\* target_acceleration^2 <= 2 * max_jerk * (max_velocity -
\* |target_velocity|) on every axis.
C10_AcceptsIffConditions ==
    result # "none" =>
        /\ (result = "accepted") <=> (\A d \in Axes(dofs) : AxisConditions(d))
        /\ (result = "accepted") => (\A d \in Axes(dofs) : UnderCeiling(d))

-----------------------------------------------------------------------------
(* Profile::check as a function of the profile and its arguments *)

\* the state after the first i segments of durations tt and jerks jj from
\* the state s0, by Profile::integrate segment after segment
RECURSIVE SegmentsEnd(_, _, _, _)
SegmentsEnd(tt, jj, s0, i) ==
    IF i = 0 THEN s0
    ELSE LET Next1(s) == Integrate(tt[i - 1], s.p, s.v, s.a, jj[i - 1])
         IN  Next1(SegmentsEnd(tt, jj, s0, i - 1))

\* the durations check is applied to: the grid of the solvers, and
\* durations with one negative entry
CheckTimes ==
    CandTimes
    \cup {[i \in 0 .. 6 |-> IF i = k THEN -1 ELSE 0] : k \in 0 .. 6}

\* the start states of the checked profiles: at rest, and above the
\* velocity limit while decelerating
CheckStarts == {[p |-> 0, v |-> 0, a |-> 0], [p |-> 0, v |-> 3, a |-> -1]}

\* the arguments of check: the target is the end of the seven segments or
\* misses it in one component, tf is their sum or one more, and the limits
\* are passed with either sign (the callers mirror a problem by negating
\* them)
CheckArgs ==
    {LET e == SegmentsEnd(tt, TeethJerk(th, jf), s0, 7)
     IN  [t |-> tt, teeth |-> th, jf |-> jf, start |-> s0,
          pf |-> e.p + off[1], vf |-> e.v + off[2], af |-> e.a + off[3],
          vMax |-> lim[1], aMax |-> lim[2], jMax |-> lim[3],
          tf |-> Dur([t |-> tt]) + late] :
     tt \in CheckTimes, th \in Teeths, jf \in {-1, 1, 2}, s0 \in CheckStarts,
     off \in {<<0, 0, 0>>, <<1, 0, 0>>, <<0, 1, 0>>, <<0, 0, 1>>},
     lim \in {<<MaxLimit, 1, 1>>, <<1, 1, 1>>, <<-MaxLimit, -1, -1>>,
              <<-MaxLimit, 1, 1>>, <<MaxLimit, -1, 1>>, <<MaxLimit, 1, -1>>},
     late \in {0, 1}}

InitCheck ==
    /\ dofs = 1
    /\ delta_time = 1
    /\ t = 0
    /\ tf = 0
    /\ current_input = UninitInput(dofs, 0)
    /\ input \in CheckArgs
    /\ \E g \in {5} :
          profiles = [d \in Axes(dofs) |->
                        [UninitProfile(g) EXCEPT !.t = input.t,
                                                 !.p[0] = input.start.p,
                                                 !.v[0] = input.start.v,
                                                 !.a[0] = input.start.a]]
    /\ output = UninitOutput(dofs, 0)
    /\ result = "none"
    /\ ev = NoSync
    /\ nplans = 0

\* profile.check<teeth>(tf, pf, vf, af, jf, vMax, aMax, jMax) is called once
CheckProfile ==
    /\ result = "none"
    /\ \E c \in {CheckTfJerk(profiles[0], input.teeth, input.tf, input.pf,
                              input.vf, input.af, input.jf, input.vMax,
                              input.aMax, input.jMax)} :
          /\ result' = IF c.ok THEN "true" ELSE "false"
          /\ profiles' = [d \in Axes(dofs) |-> c.profile]
    /\ UNCHANGED <<dofs, delta_time, current_input, t, tf, input, output, ev,
                   nplans>>

NextCheck == CheckProfile

SpecCheck == InitCheck /\ [][NextCheck]_vars

\* the jerk of segment i under the pattern of the teeth, as the claim
\* reads it: UDDU is +, 0, -, 0, -, 0, + and UDUD is +, 0, -, 0, +, 0, -
PatternJerk(teeth, jf, i) ==
    CASE i \in {1, 3, 5} -> 0
      [] i = 0 -> jf
      [] i = 2 -> -jf
      [] i = 4 -> IF teeth = "UDDU" THEN -jf ELSE jf
      [] OTHER -> IF teeth = "UDDU" THEN jf ELSE -jf

\* the boundary state i of the checked profile as the claim reads it
Boundary(i) ==
    SegmentsEnd(input.t, [k \in 0 .. 6 |-> PatternJerk(input.teeth, input.jf, k)],
                input.start, i)

\* t[0] + ... + t[i]
PrefixSum(i) ==
    SegmentsEnd(input.t, [k \in 0 .. 6 |-> 0], [p |-> 0, v |-> 2, a |-> 0], i + 1).p
        \div 6

\* the conditions of the claim under the limits vLim, aLim, jLim
CheckConditions(vLim, aLim, jLim) ==
    /\ \A i \in 0 .. 6 : input.t[i] >= 0
    /\ Abs(input.jf) <= jLim
    /\ \A i \in 3 .. 7 : Abs(Boundary(i).v) <= vLim
    /\ \A i \in 2 .. 7 : Abs(Boundary(i).a) <= aLim
    /\ Boundary(7) = [p |-> input.pf, v |-> input.vf, a |-> input.af]
    /\ PrefixSum(6) = input.tf

\* what a profile accepted by check holds
CheckedArrays ==
    /\ \A i \in 0 .. 6 :
          /\ profiles[0].t_sum[i] = PrefixSum(i)
          /\ profiles[0].j[i] = PatternJerk(input.teeth, input.jf, i)
    /\ \A i \in 1 .. 7 :
          [p |-> profiles[0].p[i], v |-> profiles[0].v[i], a |-> profiles[0].a[i]]
            = Boundary(i)

\* C19: check (with duration and jerk limit) returns true iff every t[i] >=
\* 0, |jf| is within |jMax|, |v[i]| within |vMax| for i in 3..7, |a[i]|
\* within |aMax| for i in 2..7, the end state is (pf, vf, af) and t_sum[6]
\* is tf; and when it returns true t_sum holds the prefix sums of t and a,
\* v, p the forward integration of the segments under the teeth's pattern.
C19_CheckIffConditions ==
    result # "none" =>
        /\ (result = "true") <=>
              CheckConditions(Abs(input.vMax), Abs(input.aMax), Abs(input.jMax))
        /\ result = "true" => CheckedArrays

\* C19 witness: a UDUD profile with a last segment is accepted under
\* limits passed with negative sign
C19_Witness ==
    /\ result = "true"
    /\ input.teeth = "UDUD"
    /\ input.t[6] > 0
    /\ input.t[0] > 0
    /\ input.vMax < 0
    /\ input.jMax < 0

\* C19 as stated, with the limits vMax, aMax, jMax themselves: check
\* returns true iff the listed conditions hold.
C19_CheckIffConditionsSigned ==
    result # "none" =>
        /\ (result = "true") <=>
              CheckConditions(input.vMax, input.aMax, input.jMax)
        /\ result = "true" => CheckedArrays

-----------------------------------------------------------------------------
(* Properties of the instance under Spec *)

\* the last call ran calculate and it returned Working
PlanSucceeded == ev.planned /\ ev.calc = "Working"

\* C2: after a successful planning event with T_sync > 0, every enabled
\* axis, the limiting one included, holds a profile whose brake time plus
\* t_sum[6] equals T_sync = tf = output.duration.
C2_AllAxesEndAtTSync ==
    (PlanSucceeded /\ tf > 0) =>
        /\ output.duration = tf
        /\ \A d \in Axes(dofs) :
              current_input.enabled[d] =>
                  ValueOr(profiles[d].t_brake, 0) + profiles[d].t_sum[6] = tf

\* C3, in every state of a run of fed-back calls after a successful
\* planning event with finite tf: the result is Working exactly when
\* t + delta_time <= tf and Finished otherwise, Working results come at
\* t = 0, delta_time, 2 * delta_time, ..., and Finished comes after exactly
\* floor(tf / delta_time) of them
C3_ChainState ==
    (ev.chain /\ tf < Infinity) =>
        /\ result \in {"Working", "Finished"}
        /\ (result = "Working") <=> (t + delta_time <= tf)
        /\ (result = "Working") => t = (ev.works - 1) * delta_time
        /\ (result = "Finished") =>
              /\ t = ev.works * delta_time
              /\ ev.works = tf \div delta_time

\* C3, in every call of such a run: calculate is not run again
C3_ChainStep ==
    (Continues("feedback") /\ tf < Infinity /\ ev'.call = "feedback") =>
        (~ev'.planned /\ tf' = tf)

\* C3: with targets and limits fixed and every output fed back, update
\* returns Working exactly while t + delta_time <= tf, then Finished after
\* floor(tf / delta_time) Working results, and never plans again in between.
C3_FeedbackRunEnds == [](C3_ChainState) /\ [][C3_ChainStep]_vars

\* C3 witness: Finished after two Working results of a fed-back run
C3_Witness ==
    /\ ev.chain
    /\ ev.call = "feedback"
    /\ result = "Finished"
    /\ ev.works = 2
    /\ tf < Infinity

\* C4, every call: new_calculation is true iff a plan was computed in it
C4_FlagState ==
    ev.call # "none" => (output.new_calculation <=> PlanSucceeded)

\* C4, a call with the cached input: calculate is not run, new_calculation
\* is false, tf and the profiles stay
C4_UnchangedStep ==
    (input' = current_input /\ ev'.call # "none") =>
        /\ ~ev'.planned
        /\ ~output'.new_calculation
        /\ tf' = tf
        /\ profiles' = profiles

\* C4: an input equal to the cached one does not re-plan, and
\* new_calculation tells in every update whether a plan was computed.
C4_NoReplanOnSameInput == [](C4_FlagState) /\ [][C4_UnchangedStep]_vars

\* C4 witness: after a planning event, a call with the cached input
C4_Witness ==
    /\ ev.call \in {"same", "feedback"}
    /\ ~ev.planned
    /\ ev.good
    /\ ~output.new_calculation

\* C5: when calculate fails, update returns the Result calculate produced.
C5_ErrorPassedOn ==
    (ev.planned /\ ev.calc # "Working") =>
        result = CASE ev.calc = "ErrorInvalidInput" -> "ErrorInvalidInput"
                   [] ev.calc = "throw:step1" -> "ErrorExecutionTimeCalculation"
                   [] OTHER -> "ErrorSynchronizationCalculation"

\* C6: once an update has reported an error after a plan was computed, no
\* update returns Working or Finished until a planning event succeeds.
C6_NoStaleSample ==
    [][(ev.pending /\ ev.good /\ ~(ev'.planned /\ ev'.calc = "Working"))
         => result' \notin {"Working", "Finished"}]_vars

\* C7: an update whose input is rejected as invalid leaves the cached
\* input, t, tf and the profiles as they were.
C7_RejectionKeepsState ==
    [][ev'.calc = "ErrorInvalidInput"
         => /\ current_input' = current_input
            /\ t' = t
            /\ tf' = tf
            /\ profiles' = profiles]_vars

\* the sample of the plan at its end
SampleAtEnd == at_time(dofs, delta_time, current_input, profiles, tf, tf, output)

\* C8: planning a valid input with a minimum_duration floor F succeeds with
\* a finite T_sync >= F, output.duration = T_sync, and the sample at T_sync
\* is the target state.  (Calls in which Step1 or Step2 found no profile
\* are left aside.)
C8_FloorIsMet ==
    (/\ ev.planned
     /\ HasValue(input.minimum_duration)
     /\ validate_input(dofs, input)
     /\ ev.calc \notin {"throw:step1", "throw:step2"}) =>
        /\ ev.calc = "Working"
        /\ tf < Infinity
        /\ tf >= Value(input.minimum_duration)
        /\ output.duration = tf
        /\ SampleAtEnd.new_position = input.target_position
        /\ SampleAtEnd.new_velocity = input.target_velocity
        /\ SampleAtEnd.new_acceleration = input.target_acceleration

\* the cached input at_time reads in the call that leads to the next
\* state: the new input when calculate ran, the cached one otherwise
SampledInput == IF ev'.planned THEN input' ELSE current_input

\* C9: the output of a disabled axis, sampled at a time with
\* time + delta_time <= tf, is the cached current state integrated with
\* zero jerk over `time`.
C9_DisabledAxisHeld ==
    [][result' = "Working" =>
         \A d \in Axes(dofs) :
            ~SampledInput.enabled[d] =>
                [p |-> output'.new_position[d], v |-> output'.new_velocity[d],
                 a |-> output'.new_acceleration[d]]
                  = Integrate(t', SampledInput.current_position[d],
                              SampledInput.current_velocity[d],
                              SampledInput.current_acceleration[d], 0)]_vars

\* C11: every planning failure ends calculate by returning a Result of the
\* matching kind: ErrorExecutionTimeCalculation when Step1 finds no profile,
\* ErrorSynchronizationCalculation when the synchronizer or Step2 fails;
\* calculate is left by no other path.
C11_FailureReturnsResult ==
    ev.planned =>
        ev.calc \in {"Working", "ErrorInvalidInput",
                     "ErrorExecutionTimeCalculation",
                     "ErrorSynchronizationCalculation"}

\* an input whose current state is its target state on every axis
AtTarget(inp) ==
    /\ inp.current_position = inp.target_position
    /\ inp.current_velocity = inp.target_velocity
    /\ inp.current_acceleration = inp.target_acceleration

\* the three output arrays
Kinematics(out) == <<out.new_position, out.new_velocity, out.new_acceleration>>

\* C12: for a valid input whose current state equals its target on every
\* axis, update returns Finished on the first or second cycle with the
\* output equal to the target state, and repeating update with the same
\* input keeps returning Finished with the same output.
C12_FixedPointAtTarget ==
    [][(AtTarget(input') /\ validate_input(dofs, input')) =>
         /\ result' \in {"Working", "Finished"}
         /\ (result' = "Finished" =>
                Kinematics(output') = <<input'.target_position,
                                        input'.target_velocity,
                                        input'.target_acceleration>>)
         /\ ((input' = input /\ result = "Working") => result' = "Finished")
         /\ ((input' = input /\ result = "Finished") =>
                (result' = "Finished" /\ Kinematics(output') = Kinematics(output)))]_vars

\* C13: an update that plans successfully ends with t = 0 and samples the
\* new plan at time 0, so that with tf >= delta_time the output of every
\* enabled axis is the input's current state; every update that does not
\* plan adds exactly delta_time to t, and the k-th update after a planning
\* event samples the plan at k * delta_time.
C13_ClockCountsCycles ==
    [][/\ (ev'.planned /\ ev'.calc = "Working") =>
            /\ t' = 0
            /\ tf' >= delta_time =>
                  \A d \in Axes(dofs) :
                     input'.enabled[d] =>
                        /\ output'.new_position[d] = input'.current_position[d]
                        /\ output'.new_velocity[d] = input'.current_velocity[d]
                        /\ output'.new_acceleration[d] = input'.current_acceleration[d]
       /\ ~ev'.planned => t' = t + delta_time
       /\ ev'.since >= 0 =>
            /\ t' = ev'.since * delta_time
            /\ Kinematics(output') =
                  Kinematics(at_time(dofs, delta_time, SampledInput, profiles',
                                     tf', ev'.since * delta_time, output'))]_vars

\* the sample written for axis d
AxisOutput(out, d) ==
    [p |-> out.new_position[d], v |-> out.new_velocity[d],
     a |-> out.new_acceleration[d]]

\* t_sum[k - 1], read as 0 for k = 0
SumBefore(pr, k) == IF k = 0 THEN 0 ELSE pr.t_sum[k - 1]

\* the claim for one profile sampled at t_diff past its brake prefix, with
\* k the index at_time selects and smp the sample written
SegmentSelected(pr, t_diff, k, smp) ==
    /\ (0 <= t_diff /\ t_diff < pr.t_sum[6]) =>
          /\ k \in 0 .. 6
          /\ SumBefore(pr, k) <= t_diff
          /\ t_diff < pr.t_sum[k]
          /\ smp = Integrate(t_diff - SumBefore(pr, k), pr.p[k], pr.v[k],
                             pr.a[k], pr.j[k])
    /\ t_diff >= pr.t_sum[6] =>
          smp = [p |-> pr.p[7], v |-> pr.v[7], a |-> pr.a[7]]

\* C16: an enabled axis sampled at or past the end of its brake prefix with
\* 0 <= t_diff < t_sum[6] is sampled in the segment k of 0..6 with
\* t_sum[k-1] <= t_diff < t_sum[k], by integrating t_diff - t_sum[k-1] from
\* (p[k], v[k], a[k]) with jerk j[k]; the index is never 7; with t_diff >=
\* t_sum[6] the output is (p[7], v[7], a[7]).
C16_SegmentOfSample ==
    [][result' = "Working" =>
         \A d \in Axes(dofs) :
            (/\ SampledInput.enabled[d]
             /\ t' >= ValueOr(profiles'[d].t_brake, 0)) =>
                SegmentSelected(profiles'[d],
                                t' - ValueOr(profiles'[d].t_brake, 0),
                                UpperBound(profiles'[d].t_sum,
                                           t' - ValueOr(profiles'[d].t_brake, 0)),
                                AxisOutput(output', d))]_vars

\* C16 witness: a sample taken exactly at the boundary between two
\* segments of non-zero length, in the later one
C16_Witness ==
    /\ result = "Working"
    /\ ev.since > 0
    /\ \E d \in Axes(dofs) : \E k \in 1 .. 6 :
          /\ current_input.enabled[d]
          /\ profiles[d].t_brake = Some(0)
          /\ profiles[d].t_sum[k - 1] = t
          /\ profiles[d].t[k - 1] > 0
          /\ t < profiles[d].t_sum[k]
          /\ AxisOutput(output, d) =
                [p |-> profiles[d].p[k], v |-> profiles[d].v[k], a |-> profiles[d].a[k]]

\* the state a brake prefix reaches `time` after the state s0, by the
\* durations and jerks stored in the profile pr
BrakeSample(pr, s0, time) ==
    IF time < pr.t_brakes[0]
    THEN Integrate(time, s0.p, s0.v, s0.a, pr.j_brakes[0])
    ELSE LET After(s1) == Integrate(time - pr.t_brakes[0], s1.p, s1.v, s1.a,
                                    pr.j_brakes[1])
         IN  After(Integrate(pr.t_brakes[0], s0.p, s0.v, s0.a, pr.j_brakes[0]))

\* C17: whatever non-negative durations Brake returned, a zero first and
\* positive second one included, a sample inside the brake prefix is the
\* integration from the start state of the matching brake segment of the
\* current plan: segment 0 from the current state of the planned input,
\* segment 1 from the state at the end of segment 0.
C17_BrakeSampleFromPlan ==
    [][(result' = "Working" /\ ev'.since >= 0) =>
         \A d \in Axes(dofs) :
            (/\ SampledInput.enabled[d]
             /\ HasValue(profiles'[d].t_brake)
             /\ t' < Value(profiles'[d].t_brake)) =>
                AxisOutput(output', d) = BrakeSample(profiles'[d], ev'.start[d], t')]_vars

\* C20: disabled axes take no part in the synchronization: the limiting
\* axis is an enabled axis of the input, and T_sync is the duration of that
\* axis' profile as Step1 produced it in this planning event (its t_min or
\* the right end of one of its intervals).
C20_DisabledAxesStayOut ==
    (ev.planned /\ ev.sync.ret = "true") =>
        /\ ev.sync.limiting_dof \in Axes(dofs)
        /\ input.enabled[ev.sync.limiting_dof]
        /\ ev.sync.idx % 3 = 0 =>
              tf = output.independent_min_durations[ev.sync.limiting_dof]
        /\ ev.calc = "Working" => tf = profiles[ev.sync.limiting_dof].t_sum[6]

=============================================================================
